---- MODULE Spec2Model ----
(***************************************************************************)
(* A model of ScanProvider (providers/scan.ts): the scan() orchestrator,   *)
(* its again() loop, the block interpreter of one pass, and the           *)
(* acquisition collaborators (barcode plugin, keyboard input, alerts).     *)
(*                                                                         *)
(* JavaScript runs one task at a time: a handler runs to its next await,   *)
(* promise continuations (microtasks) run in FIFO order before any other   *)
(* event is handled.  Every action below is one such run.                  *)
(***************************************************************************)
EXTENDS Integers, Sequences, FiniteSets, TLC

\* ------------------------------------------------------------------ bounds
MaxCalls == 2          \* number of scan() calls on the instance
MaxTicks == 1          \* number of clock advances
TickMs == 500          \* milliseconds per clock advance
MaxAnswers == 3        \* number of answers the collaborators give (barcodes, buttons)
MaxAgainCount == 32    \* cap of againCount (answers "Continue" at the loop dialog)

\* ------------------------------------------------------- program constants
InfiniteLoopThreshold == 30
ResetAgainCountDelay == 500

Invocations == 1..MaxCalls

\* ------------------------------------------------------------ input values
ScanModes == {"SCAN_MODE_ENTER_MAUALLY", "SCAN_MODE_SINGLE", "SCAN_MODE_CONTINUE"}
Barcodes == {"123", "999"}
Cancelled == "cancelled"
Formats == {"CODE_39", "QR_CODE"}

\* what the barcode plugin returns: BarcodeScanResult
ScanCancelled == [text |-> "", format |-> "", cancelled |-> TRUE]
BarcodeScanResults ==
  { [text |-> t, format |-> f, cancelled |-> FALSE] : t \in Barcodes, f \in Formats } \cup {ScanCancelled}
Undefined == -1        \* stands for JavaScript's undefined where a number is expected
QuantityInputs == {"", "5"}
SelectOptions == {"o1"}

Block(t, v) == [type |-> t, value |-> v]

ProfileIfBarcode == << Block("text", "L1"), Block("barcode", ""), Block("if", "barcode == '123'"),
                       Block("text", "MATCH"), Block("endif", "") >>
ProfilePrompts == << Block("variable", "quantity"), Block("select_option", "o1"), Block("barcode", "") >>
ProfileIfFalse == << Block("if", "false"), Block("barcode", ""), Block("endif", "") >>
ProfileIfThrows == << Block("barcode", ""), Block("if", "barcode =="), Block("text", "T"), Block("endif", "") >>

\* a Function block whose expression does not evaluate
ProfileFunctionThrows == << Block("function", "barcode =="), Block("variable", "deviceName") >>

\* profiles with 0, 1 and 2 levels of If nesting, for every outcome of the
\* conditions c1 and c2; none of them suspends
ProfileFlat == << Block("text", "A"), Block("variable", "deviceName") >>
ProfileSequence(c1, c2) ==
  << Block("if", c1), Block("text", "A"), Block("endif", ""),
     Block("if", c2), Block("variable", "deviceName"), Block("endif", "") >>
ProfileNested(c1, c2) ==
  << Block("if", c1), Block("variable", "deviceName"),
       Block("if", c2), Block("text", "IN"), Block("endif", ""),
       Block("variable", "deviceName"), Block("endif", ""),
     Block("variable", "deviceName") >>
ProfileNestedTight(c1, c2) ==
  << Block("if", c1), Block("if", c2), Block("text", "IN"), Block("endif", ""), Block("endif", ""),
     Block("variable", "deviceName") >>

\* a second barcode and a quantity inside two nested Ifs that depend on the first
ProfileBranch ==
  << Block("barcode", ""), Block("if", "barcode == '123'"), Block("if", "true"),
     Block("barcode", ""), Block("endif", ""), Block("variable", "quantity"), Block("endif", ""),
     Block("text", "E") >>

\* a condition that reads a field of the provider instead of a variable
ProfileReadsEngine ==
  << Block("if", "this.continuosScanSubscription == null"), Block("text", "FIRST"),
     Block("endif", ""), Block("barcode", "") >>

Conditions == {"true", "false"}

NestingProfiles ==
  {ProfileFlat}
  \cup { ProfileSequence(c1, c2) : c1, c2 \in Conditions }
  \cup { ProfileNested(c1, c2) : c1, c2 \in Conditions }
  \cup { ProfileNestedTight(c1, c2) : c1, c2 \in Conditions }

Profiles ==
  { ProfileIfBarcode, ProfilePrompts, ProfileIfFalse, ProfileIfThrows, ProfileFunctionThrows,
    ProfileBranch, ProfileReadsEngine }
  \cup NestingProfiles

\* the stored settings; barcodeFormats holds the names of the enabled formats
Settings(p, t) ==
  [outputProfile |-> p, continueModeTimeout |-> t, quantityType |-> "number", deviceName |-> "dev",
   barcodeFormats |-> {"QR_CODE", "CODE_39"}]

SettingsCode32(p, t) == [Settings(p, t) EXCEPT !.barcodeFormats = @ \cup {"CODE_32"}]

\* the quantity is entered as free text
SettingsText(p, t) == [Settings(p, t) EXCEPT !.quantityType = "text"]

\* what an instance is created with: the platform, the stored settings, and the
\* scanning modes its user requests
Configurations ==
  ( { << "android", Settings(p, 0) >> : p \in { ProfileIfBarcode, ProfilePrompts } }
    \X { {m} : m \in ScanModes } )
  \cup ( { << "android", Settings(ProfileIfFalse, 0) >> }
         \X { {"SCAN_MODE_ENTER_MAUALLY"}, {"SCAN_MODE_SINGLE"} } )
  \cup ( { << "android", Settings(p, 0) >> :
             p \in NestingProfiles \cup {ProfileFunctionThrows, ProfileBranch} }
         \X { {"SCAN_MODE_SINGLE"} } )
  \cup { << << "android", SettingsCode32(ProfileIfThrows, 1) >>, {"SCAN_MODE_CONTINUE"} >>,
         << << "android", SettingsCode32(ProfileIfThrows, Undefined) >>, {"SCAN_MODE_CONTINUE"} >>,
         << << "ios", Settings(ProfileIfBarcode, 0) >>, {"SCAN_MODE_CONTINUE"} >> }

\* an instance whose user switches between the scanning modes
ModeConfigurations ==
  Configurations
  \cup { << << "ios", Settings(ProfileIfBarcode, 1) >>, ScanModes >>,
         << << "android", Settings(ProfileReadsEngine, 0) >>, {"SCAN_MODE_CONTINUE"} >>,
         << << "android", SettingsText(ProfilePrompts, 0) >>, {"SCAN_MODE_SINGLE"} >> }

\* the configuration whose user edits the stored profile while scanning
EditingConfiguration == << << "ios", Settings(ProfileIfBarcode, 0) >>, {"SCAN_MODE_CONTINUE"} >>

\* the profiles the user of a configuration will save over the stored one
Drafts(configuration) == IF configuration = EditingConfiguration THEN {ProfileIfThrows} ELSE {}

VARIABLES
  now,         \* new Date().getTime(), in milliseconds
  platform,    \* this.platform: "android" or "ios"
  settings,    \* what the Settings provider returns
  userModes,   \* the scanning modes the user of this instance picks from
  drafts,      \* the profiles the user has still to save over the stored one
  this,        \* the fields of the ScanProvider instance
  inv,         \* per scan() call: the closure of its Observable and its again() loop
  nCalls,      \* number of scan() calls made so far
  microtasks,  \* settled promises whose continuation has not run yet (FIFO)
  onSubmit,    \* keyboardInput.onSubmit: the passes subscribed with first()
  emit,        \* the observer.next(scan) call made by the last step, if any
  returned,    \* the again() that returned in the last step, if any, and why
  alert,       \* number of 'Error' alerts evalCode presented in the last step
  nAnswers,    \* number of answers the collaborators have given
  minted,      \* history: the tokens the scan() calls have set so far
  evaluation,  \* one call of evalCode taken on its own: its locals and its outcome
  draft        \* one run of the for loop of the earlier acquireScan taken on its own

vars == << now, platform, settings, userModes, drafts, this, inv, nCalls, microtasks, onSubmit, emit,
           returned, alert, nAnswers, minted, evaluation, draft >>

\* the state of the provider and of its collaborators
provider == << now, platform, settings, userModes, drafts, this, inv, nCalls, microtasks, onSubmit,
               emit, returned, alert, nAnswers, minted >>

NoVariables == [barcode |-> "", barcodes |-> << >>, quantity |-> "null"]

NoScan ==
  [inv |-> 0, outputBlocks |-> << >>, delivered |-> FALSE, againCountWas |-> 0, repeated |-> FALSE,
   variables |-> NoVariables]

NoReturn == [inv |-> 0, why |-> "none"]

NoPluginOptions == [defined |-> FALSE, continuousMode |-> FALSE]

\* cloned: scan.outputBlocks is an array of its own; template (history only):
\* the blocks it was made from
NoPass ==
  [started |-> FALSE, outputBlocks |-> << >>, cloned |-> TRUE, template |-> << >>, i |-> 1,
   variables |-> NoVariables]

\* "result" of the then() of Promise.all before the settings have arrived
NoResult == [outputProfile |-> << >>, deviceName |-> "", barcodeFormats |-> {}]

NoInvocation ==
  [ pc |-> "none", scanMode |-> "none", subscribed |-> FALSE, stopped |-> FALSE,
    sup |-> FALSE, confirmed |-> FALSE,
    scanCallId |-> -1, continueModeTimeout |-> 0,
    againCount |-> 0, prevScanDisplayValue |-> << >>, resetAgainCountTimer |-> 0,
    req |-> "none", timeoutSeconds |-> 0, pass |-> NoPass,
    result |-> NoResult,
    streak |-> 0 ]   \* history: passes in a row with one display value and no question asked

Suspended == {"barcode", "quantity", "select_option", "add_more", "infinite_loop"}

\* no call of evalCode is looked at on its own
NoEvaluation ==
  [expression |-> << >>, code |-> << >>, variables |-> << >>, keys |-> << >>, pc |-> "none",
   value |-> << >>]

\* no run of the earlier acquireScan is looked at on its own
NoDraft == [outputBlocks |-> << >>, i |-> 0, pc |-> "none"]

\* The state the handlers read and write, threaded through one run.
World == [ this |-> this, inv |-> inv, microtasks |-> microtasks,
           onSubmit |-> onSubmit, emit |-> NoScan, returned |-> NoReturn, alert |-> 0,
           now |-> now ]

Commit(w) ==
  /\ this' = w.this
  /\ inv' = w.inv
  /\ microtasks' = w.microtasks
  /\ onSubmit' = w.onSubmit
  /\ emit' = w.emit
  /\ returned' = w.returned
  /\ alert' = w.alert
  /\ UNCHANGED << evaluation, draft >>

\* No handler is running and no continuation is queued: the event loop is free.
Idle == microtasks = << >> /\ \A k \in Invocations : inv[k].pc # "again"

\* ------------------------------------------------------------ pure helpers

\* evalCode(code, variables): the outcome of eval() on the expressions the
\* profiles above use.  ok = FALSE stands for the thrown Error.  eval is called
\* inside the method, so the expression sees the provider (self) as "this".
evalCode(code, variables, self) ==
  CASE code = "true" -> [ok |-> TRUE, value |-> TRUE]
    [] code = "false" -> [ok |-> TRUE, value |-> FALSE]
    [] code = "barcode == '123'" -> [ok |-> TRUE, value |-> (variables.barcode = "123")]
    [] code = "this.continuosScanSubscription == null" ->
         [ok |-> TRUE, value |-> ~self.continuosScanSubscription]
    [] OTHER -> [ok |-> FALSE, value |-> FALSE]

presentErrorAlert_Silent(w, r) == w

\* the catch of evalCode: alertCtrl.create({title: 'Error', ...}).present()
\* before the error is thrown on to the caller
presentErrorAlert(w, r) == IF r.ok THEN w ELSE [w EXCEPT !.alert = @ + 1]

functionValue_KeepsExpression(code, r) == IF r.ok THEN r.value ELSE code

\* case 'function': "try { value = evalCode(...) } catch (error) { value = '' }"
functionValue(code, r) == IF r.ok THEN r.value ELSE ""

\* OutputBlockModel.FindEndIfIndex(outputBlocks, startFrom): forward scan with
\* nesting depth.  Indices are 1-based here; 0 stands for "not found".
RECURSIVE FindEndIfFrom(_, _, _)
FindEndIfFrom(outputBlocks, j, skip) ==
  IF j > Len(outputBlocks) THEN 0
  ELSE IF outputBlocks[j].type = "if" THEN FindEndIfFrom(outputBlocks, j + 1, skip + 1)
  ELSE IF outputBlocks[j].type = "endif"
       THEN IF skip = 0 THEN j ELSE FindEndIfFrom(outputBlocks, j + 1, skip - 1)
  ELSE FindEndIfFrom(outputBlocks, j + 1, skip)

FindEndIfIndex(outputBlocks, startFrom) == FindEndIfFrom(outputBlocks, startFrom, 0)

\* OutputProfileModel.HasBlockingOutputComponents(outputProfile)
HasBlockingOutputComponents(outputBlocks) ==
  \E j \in 1..Len(outputBlocks) :
    \/ outputBlocks[j].type = "select_option"
    \/ outputBlocks[j].type = "variable" /\ outputBlocks[j].value = "quantity"

\* Array.prototype.splice(start, deleteCount), 1-based start
Splice(s, start, count) ==
  IF count <= 0 THEN s
  ELSE SubSeq(s, 1, start - 1) \o SubSeq(s, start + count, Len(s))

\* ScanModel.ToString(scan): the rendering of the resolved blocks; '' is << >>.
ScanToString(outputBlocks) == [j \in 1..Len(outputBlocks) |-> outputBlocks[j].value]

\* new Supplant().text(value, variables)
SupplantText(value, variables) ==
  IF value = "{{ barcode }}" THEN variables.barcode ELSE value

\* JavaScript truthiness of a number or undefined
Truthy(v) == v # 0 /\ v # Undefined

DeriveAcqusitionMode_IgnoresTimeout(scanMode, blockingOutputComponents, isAndroid, continueModeTimeout, old) ==
  CASE scanMode = "SCAN_MODE_ENTER_MAUALLY" -> "manual"
    [] scanMode = "SCAN_MODE_SINGLE" -> "single"
    [] scanMode = "SCAN_MODE_CONTINUE" ->
         IF blockingOutputComponents \/ ~isAndroid THEN "mixed_continue" ELSE "continue"
    [] OTHER -> old

\* the switch (scanMode) of scan(): the effective acquisition mode
DeriveAcqusitionMode(scanMode, blockingOutputComponents, isAndroid, continueModeTimeout, old) ==
  CASE scanMode = "SCAN_MODE_ENTER_MAUALLY" -> "manual"
    [] scanMode = "SCAN_MODE_SINGLE" -> "single"
    [] scanMode = "SCAN_MODE_CONTINUE" ->
         IF blockingOutputComponents \/ ~isAndroid \/ Truthy(continueModeTimeout)
         THEN "mixed_continue" ELSE "continue"
    [] OTHER -> old

\* "let pluginOptions: BarcodeScannerOptions = {...}": the option the model reads
PluginOptions(acqusitionMode) == [defined |-> TRUE, continuousMode |-> (acqusitionMode = "continue")]

\* --------------------------------------------------------- the subscriber

\* observer.complete(): the Subscriber stops; a second complete() is a no-op
ObserverComplete(w, k) == [w EXCEPT !.inv[k].stopped = TRUE]

ObserverNext_Unchecked(w, k, scan) ==
  [w EXCEPT !.emit.inv = k, !.emit.outputBlocks = scan, !.emit.delivered = TRUE]

\* observer.next(scan): a stopped Subscriber delivers nothing
ObserverNext(w, k, scan) ==
  [w EXCEPT !.emit.inv = k, !.emit.outputBlocks = scan, !.emit.delivered = ~w.inv[k].stopped]

\* "return; // returns the again() function": nothing reads the closure's
\* locals any more (a pending timer only writes againCount)
Return(w, k, why) ==
  [w EXCEPT !.returned = [inv |-> k, why |-> why],
            !.inv[k].pc = "done", !.inv[k].req = "none", !.inv[k].sup = FALSE,
            !.inv[k].confirmed = FALSE, !.inv[k].scanMode = "none",
            !.inv[k].scanCallId = -1, !.inv[k].result = NoResult, !.inv[k].streak = 0,
            !.inv[k].pass = NoPass, !.inv[k].againCount = 0,
            !.inv[k].prevScanDisplayValue = << >>, !.inv[k].resetAgainCountTimer = 0]

CompleteAndReturn_NoComplete(w, k, why) == Return(w, k, why)

\* "observer.complete(); return;" -- the fragment duplicated in again()
CompleteAndReturn(w, k, why) == Return(ObserverComplete(w, k), k, why)

\* ------------------------------------------------------ acquisition requests

\* getBarcode(label): this.awaitingForBarcode = true, then the promise
\* executor's switch on this.acqusitionMode; the pass suspends at the await.
getBarcode(w, k) ==
  LET w1 == [w EXCEPT !.this.awaitingForBarcode = TRUE, !.inv[k].pc = "barcode"] IN
  CASE w.this.acqusitionMode \in {"single", "mixed_continue"} ->
         [w1 EXCEPT !.inv[k].req = "plugin"]
    [] w.this.acqusitionMode = "continue" ->
         [w1 EXCEPT !.inv[k].req = "continue",
                    !.this.lastResolve = [inv |-> k, settled |-> FALSE],
                    !.this.continuosScanSubscription = TRUE]
    [] OTHER -> \* 'manual'
         [w1 EXCEPT !.inv[k].req = "manual", !.onSubmit = Append(w.onSubmit, k)]

\* getQuantity(label): presents the alert; the pass suspends at the await
getQuantity(w, k) == [w EXCEPT !.inv[k].pc = "quantity", !.inv[k].req = "alert"]

\* showSelectOption(csvSelectOptions)
showSelectOption(w, k) == [w EXCEPT !.inv[k].pc = "select_option", !.inv[k].req = "alert"]

\* showAddMoreDialog(timeoutSeconds): presents the alert and starts the
\* one-second interval that counts timeoutSeconds down
showAddMoreDialog(w, k, timeoutSeconds) ==
  [w EXCEPT !.inv[k].pc = "add_more", !.inv[k].req = "alert", !.inv[k].timeoutSeconds = timeoutSeconds]

\* showPreventInfiniteLoopDialog(): the user is asked, so the row of passes
\* nobody was asked about ends here
showPreventInfiniteLoopDialog(w, k) ==
  [w EXCEPT !.inv[k].pc = "infinite_loop", !.inv[k].req = "alert", !.inv[k].streak = 0]

\* ------------------------------------------------------------- one pass

NextAgainCount_Reset(againCount, displayValue, prevScanDisplayValue) ==
  IF displayValue = prevScanDisplayValue THEN againCount + 1 ELSE 0

\* "if (scan.displayValue == prevScanDisplayValue) againCount++"
NextAgainCount(againCount, displayValue, prevScanDisplayValue) ==
  IF displayValue = prevScanDisplayValue THEN againCount + 1 ELSE againCount

\* "decide how and if repeat the outputBlock": switch (this.acqusitionMode)
RepeatOrComplete(w, k) ==
  CASE w.this.acqusitionMode \in {"continue", "manual"} -> [w EXCEPT !.inv[k].pc = "again"]
    [] w.this.acqusitionMode = "mixed_continue" -> showAddMoreDialog(w, k, w.inv[k].continueModeTimeout)
    [] OTHER -> CompleteAndReturn(w, k, "single")

\* the tail of again(): scan.displayValue, the againCount bookkeeping,
\* observer.next(scan) and the mode switch
FinishPass(w, k) ==
  LET c == w.inv[k]
      displayValue == ScanToString(c.pass.outputBlocks)
      w1 == [w EXCEPT !.emit.againCountWas = c.againCount,
                      !.emit.repeated = (displayValue = c.prevScanDisplayValue),
                      !.emit.variables = c.pass.variables,
                      !.inv[k].streak = IF displayValue = c.prevScanDisplayValue THEN @ + 1 ELSE 1,
                      !.inv[k].againCount = NextAgainCount(c.againCount, displayValue, c.prevScanDisplayValue),
                      !.inv[k].prevScanDisplayValue = displayValue,
                      !.inv[k].resetAgainCountTimer = w.now + ResetAgainCountDelay,
                      !.inv[k].pass = NoPass]
  IN RepeatOrComplete(ObserverNext(w1, k, c.pass.outputBlocks), k)

\* a write to scan.outputBlocks: it reaches this.outputProfile.outputBlocks
\* too when the two are one array
SetOutputBlocks(w, k, outputBlocks) ==
  [w EXCEPT !.inv[k].pass.outputBlocks = outputBlocks,
            !.this.outputProfile = IF w.inv[k].pass.cloned THEN @ ELSE outputBlocks]

SetValueAndGoOn_SkipsNext(w, k, v) ==
  [SetOutputBlocks(w, k, [w.inv[k].pass.outputBlocks EXCEPT ![w.inv[k].pass.i].value = v])
     EXCEPT !.inv[k].pass.i = @ + 2]

\* outputBlock.value = v, then the for loop's i++
SetValueAndGoOn(w, k, v) ==
  [SetOutputBlocks(w, k, [w.inv[k].pass.outputBlocks EXCEPT ![w.inv[k].pass.i].value = v])
     EXCEPT !.inv[k].pass.i = @ + 1]

SpliceIf_KeepsEndIf(outputBlocks, i, condition) ==
  LET endIfIndex == FindEndIfIndex(outputBlocks, i + 1) IN
  IF condition = TRUE
  THEN Splice(outputBlocks, i, 1)
  ELSE Splice(outputBlocks, i, endIfIndex - i + 1)

SpliceIf_KeepsRange(outputBlocks, i, condition) ==
  LET endIfIndex == FindEndIfIndex(outputBlocks, i + 1) IN
  Splice(Splice(outputBlocks, i, 1), endIfIndex - 1, 1)

SpliceIf_NoOffset(outputBlocks, i, condition) ==
  LET endIfIndex == FindEndIfIndex(outputBlocks, i + 1) IN
  IF condition = TRUE
  THEN Splice(Splice(outputBlocks, i, 1), endIfIndex, 1)
  ELSE Splice(outputBlocks, i, endIfIndex - i + 1)

\* case 'if': the two splices; i is left pointing at the block that took the
\* place of the 'if'
SpliceIf(outputBlocks, i, condition) ==
  LET endIfIndex == FindEndIfIndex(outputBlocks, i + 1) IN
  IF condition = TRUE
  THEN Splice(Splice(outputBlocks, i, 1), endIfIndex - 1, 1)
  ELSE Splice(outputBlocks, i, endIfIndex - i + 1)

\* the for loop of again() from block i up to the next await, return or end
RECURSIVE RunBlocks(_, _)
RunBlocks(w, k) ==
  LET pass == w.inv[k].pass IN
  IF pass.i > Len(pass.outputBlocks) THEN FinishPass(w, k)
  ELSE
    LET outputBlock == pass.outputBlocks[pass.i] IN
    CASE outputBlock.type = "variable" /\ outputBlock.value = "quantity" -> getQuantity(w, k)
      [] outputBlock.type = "variable" /\ outputBlock.value = "deviceName" ->
           RunBlocks(SetValueAndGoOn(w, k, w.this.deviceName), k)
      [] outputBlock.type = "select_option" ->
           showSelectOption(
             SetOutputBlocks(w, k, [pass.outputBlocks EXCEPT ![pass.i].value =
                                      SupplantText(outputBlock.value, pass.variables)]), k)
      [] outputBlock.type = "function" ->
           LET r == evalCode(outputBlock.value, pass.variables, w.this) IN
           RunBlocks(SetValueAndGoOn(presentErrorAlert(w, r), k, functionValue(outputBlock.value, r)), k)
      [] outputBlock.type = "barcode" -> getBarcode(w, k)
      [] outputBlock.type \in {"run", "http"} ->
           RunBlocks(SetValueAndGoOn(w, k, SupplantText(outputBlock.value, pass.variables)), k)
      [] outputBlock.type = "if" ->
           LET r == evalCode(outputBlock.value, pass.variables, w.this) IN
           IF ~r.ok THEN CompleteAndReturn(presentErrorAlert(w, r), k, "invalid-condition")
           ELSE RunBlocks(SetOutputBlocks(w, k, SpliceIf(pass.outputBlocks, pass.i, r.value)), k)
      [] OTHER -> RunBlocks([w EXCEPT !.inv[k].pass.i = @ + 1], k)

NewPass_SharesTemplate(w, k) ==
  [w EXCEPT !.inv[k].pass =
     [started |-> TRUE, outputBlocks |-> w.this.outputProfile, cloned |-> FALSE,
      template |-> w.this.outputProfile, i |-> 1, variables |-> NoVariables]]

NewPass_FromLoadResult(w, k) ==
  [w EXCEPT !.inv[k].pass =
     [started |-> TRUE, outputBlocks |-> w.inv[k].result.outputProfile, cloned |-> TRUE,
      template |-> w.inv[k].result.outputProfile, i |-> 1, variables |-> NoVariables]]

\* "let scan = new ScanModel(); ... let variables = {...}": the working copy,
\* JSON.parse(JSON.stringify(this.outputProfile.outputBlocks))
NewPass(w, k) ==
  [w EXCEPT !.inv[k].pass =
     [started |-> TRUE, outputBlocks |-> w.this.outputProfile, cloned |-> TRUE,
      template |-> w.this.outputProfile, i |-> 1, variables |-> NoVariables]]

again_NoLoopCheck(w, k) ==
  IF w.inv[k].scanCallId # w.this.scanCallId THEN CompleteAndReturn(w, k, "superseded")
  ELSE RunBlocks(NewPass(w, k), k)

\* again(): the token check, the infinite loop check, then one pass
again(w, k) ==
  IF w.inv[k].scanCallId # w.this.scanCallId THEN CompleteAndReturn(w, k, "superseded")
  ELSE IF w.inv[k].againCount > InfiniteLoopThreshold THEN showPreventInfiniteLoopDialog(w, k)
  ELSE RunBlocks(NewPass(w, k), k)

\* the user chose "Continue" at the infinite-loop confirmation (history only):
\* remembered for as long as againCount stays above the threshold
Confirmed(w, k) == [w EXCEPT !.inv[k].confirmed = (w.inv[k].againCount > InfiniteLoopThreshold)]

afterInfiniteLoopDialog_IgnoresAnswer(w, k, wantToContinue) ==
  RunBlocks(NewPass(Confirmed(w, k), k), k)

\* the rest of again() after "await this.showPreventInfiniteLoopDialog()"
afterInfiniteLoopDialog(w, k, wantToContinue) ==
  IF ~wantToContinue THEN CompleteAndReturn(w, k, "stopped")
  ELSE RunBlocks(NewPass(Confirmed(w, k), k), k)

\* the rest of again() after "await this.getQuantity(outputBlock.label)"
afterQuantity(w, k, ok, value) ==
  IF ~ok THEN CompleteAndReturn(w, k, "user-cancelled")
  ELSE RunBlocks(SetValueAndGoOn([w EXCEPT !.inv[k].pass.variables.quantity = value], k, value), k)

\* the rest of again() after "await this.showSelectOption(outputBlock.value)"
afterSelectOption(w, k, value) == RunBlocks(SetValueAndGoOn(w, k, value), k)

afterBarcode_KeepsLast(w, k, ok, barcode) ==
  LET w1 == [w EXCEPT !.this.awaitingForBarcode = FALSE] IN
  IF ~ok THEN CompleteAndReturn(w1, k, "user-cancelled")
  ELSE IF w.inv[k].scanCallId # w.this.scanCallId THEN CompleteAndReturn(w1, k, "superseded")
  ELSE RunBlocks(
         SetValueAndGoOn(
           [w1 EXCEPT !.inv[k].pass.variables.barcode = barcode,
                      !.inv[k].pass.variables.barcodes = << barcode >>], k, barcode), k)

afterBarcode_NoVariable(w, k, ok, barcode) ==
  LET w1 == [w EXCEPT !.this.awaitingForBarcode = FALSE] IN
  IF ~ok THEN CompleteAndReturn(w1, k, "user-cancelled")
  ELSE IF w.inv[k].scanCallId # w.this.scanCallId THEN CompleteAndReturn(w1, k, "superseded")
  ELSE RunBlocks(SetValueAndGoOn(w1, k, barcode), k)

\* the rest of again() after "await this.getBarcode(outputBlock.label)";
\* the promise's own then/catch has cleared awaitingForBarcode first
afterBarcode(w, k, ok, barcode) ==
  LET w1 == [w EXCEPT !.this.awaitingForBarcode = FALSE] IN
  IF ~ok THEN CompleteAndReturn(w1, k, "user-cancelled")
  ELSE IF w.inv[k].scanCallId # w.this.scanCallId THEN CompleteAndReturn(w1, k, "superseded")
  ELSE RunBlocks(
         SetValueAndGoOn(
           [w1 EXCEPT !.inv[k].pass.variables.barcode = barcode,
                      !.inv[k].pass.variables.barcodes = Append(@, barcode)], k, barcode), k)

\* the then() of showAddMoreDialog
afterAddMore(w, k, addMore) ==
  IF addMore THEN again(w, k) ELSE CompleteAndReturn(w, k, "declined")

\* ----------------------------------------------------------------- actions

InitProvider(configurations) ==
  /\ now = 0
  /\ \E c \in configurations :
       platform = c[1][1] /\ settings = c[1][2] /\ userModes = c[2] /\ drafts = Drafts(c)
  /\ this = [ scanCallId |-> -1, lastObserver |-> 0, acqusitionMode |-> "manual",
              outputProfile |-> << >>, deviceName |-> "", quantityType |-> "",
              awaitingForBarcode |-> FALSE, continuosScanSubscription |-> FALSE,
              updating |-> FALSE,
              lastResolve |-> [inv |-> 0, settled |-> TRUE],
              pluginOptions |-> NoPluginOptions, barcodeFormats |-> {} ]
  /\ inv = [k \in Invocations |-> NoInvocation]
  /\ nCalls = 0
  /\ microtasks = << >>
  /\ onSubmit = << >>
  /\ emit = NoScan
  /\ returned = NoReturn
  /\ alert = 0
  /\ nAnswers = 0
  /\ minted = << >>

InitOf(configurations) ==
  /\ InitProvider(configurations)
  /\ evaluation = NoEvaluation
  /\ draft = NoDraft

Init == InitOf(Configurations)

InitModes == InitOf(ModeConfigurations)

\* what a scan() call means for the invocations made before it (history only)
Superseding(c) == IF c.pc \in Suspended THEN [c EXCEPT !.sup = TRUE] ELSE c

\* scan(scanMode, ...): the synchronous part, up to "return new Observable"
scan(w, k, scanMode) ==
  LET w1 == IF w.this.lastObserver # 0 THEN ObserverComplete(w, w.this.lastObserver) ELSE w IN
  [w1 EXCEPT !.this.scanCallId = w.now,
             !.inv = [j \in Invocations |->
                        IF j = k THEN [NoInvocation EXCEPT !.pc = "created", !.scanMode = scanMode]
                        ELSE Superseding(w1.inv[j])]]

Scan(scanMode) ==
  /\ Idle
  /\ scanMode \in userModes
  /\ nCalls < MaxCalls
  /\ nCalls' = nCalls + 1
  /\ minted' = Append(minted, now)
  /\ Commit(scan(World, nCalls + 1, scanMode))
  /\ UNCHANGED << now, platform, settings, userModes, drafts, nAnswers >>

\* the Observable's subscribe function up to Promise.all(...)
subscribe(w, k) ==
  [w EXCEPT !.this.lastObserver = k, !.inv[k].pc = "loading", !.inv[k].subscribed = TRUE]

Subscribe(k) ==
  /\ Idle
  /\ inv[k].pc = "created"
  /\ Commit(subscribe(World, k))
  /\ UNCHANGED << now, platform, settings, userModes, drafts, nCalls, nAnswers, minted >>

\* the then() of Promise.all: parameters, acqusitionMode, the closure's
\* locals, and the first again()
settingsLoaded(w, k) ==
  LET blockingOutputComponents == HasBlockingOutputComponents(settings.outputProfile)
      acqusitionMode == DeriveAcqusitionMode(w.inv[k].scanMode, blockingOutputComponents,
                                             platform = "android", settings.continueModeTimeout,
                                             w.this.acqusitionMode)
      w1 == [w EXCEPT !.this.barcodeFormats = settings.barcodeFormats,
                      !.this.deviceName = settings.deviceName,
                      !.this.outputProfile = settings.outputProfile,
                      !.this.quantityType = settings.quantityType,
                      !.this.acqusitionMode = acqusitionMode,
                      !.this.pluginOptions = PluginOptions(acqusitionMode),
                      !.inv[k].result = [outputProfile |-> settings.outputProfile,
                                         deviceName |-> settings.deviceName,
                                         barcodeFormats |-> settings.barcodeFormats],
                      !.inv[k].continueModeTimeout = settings.continueModeTimeout,
                      !.inv[k].againCount = 0,
                      !.inv[k].prevScanDisplayValue = << >>,
                      !.inv[k].scanCallId = w.this.scanCallId]
  IN again(w1, k)

SettingsLoaded(k) ==
  /\ Idle
  /\ inv[k].pc = "loading"
  /\ Commit(settingsLoaded(World, k))
  /\ UNCHANGED << now, platform, settings, userModes, drafts, nCalls, nAnswers, minted >>

\* the again() called at the end of a pass in 'continue' and 'manual' mode
Again(k) ==
  /\ inv[k].pc = "again"
  /\ Commit(again(World, k))
  /\ UNCHANGED << now, platform, settings, userModes, drafts, nCalls, nAnswers, minted >>

\* the continuation of the pass whose promise settled first
resume(w, m) ==
  LET k == m.inv
      w1 == [w EXCEPT !.microtasks = Tail(@), !.inv[k].sup = FALSE,
                      !.inv[k].req = "none"]
  IN CASE w.inv[k].pc = "barcode" -> afterBarcode(w1, k, m.ok, m.value)
       [] w.inv[k].pc = "quantity" -> afterQuantity(w1, k, m.ok, m.value)
       [] w.inv[k].pc = "select_option" -> afterSelectOption(w1, k, m.value)
       [] w.inv[k].pc = "add_more" -> afterAddMore(w1, k, m.ok)
       [] OTHER -> afterInfiniteLoopDialog(w1, k, m.ok)

Resume ==
  /\ microtasks # << >>
  /\ \A k \in Invocations : inv[k].pc # "again"
  /\ Commit(resume(World, Head(microtasks)))
  /\ UNCHANGED << now, platform, settings, userModes, drafts, nCalls, nAnswers, minted >>

Settle(w, k, ok, value) ==
  [w EXCEPT !.microtasks = Append(@, [inv |-> k, ok |-> ok, value |-> value])]

\* a collaborator answers a request
Answer == nAnswers < MaxAnswers /\ nAnswers' = nAnswers + 1

\* keyboardInput.onSubmit emits: every first() subscriber gets the text
KeyboardSubmit(text) ==
  /\ Idle
  /\ onSubmit # << >>
  /\ Commit([World EXCEPT !.onSubmit = << >>,
                          !.microtasks = [j \in 1..Len(onSubmit) |->
                                            [inv |-> onSubmit[j], ok |-> TRUE, value |-> text]]])
  /\ Answer
  /\ UNCHANGED << now, platform, settings, userModes, drafts, nCalls, minted >>

\* Utils.convertCode39ToCode32(text): the CODE_32 form of a CODE_39 text
convertCode39ToCode32(text) ==
  CASE text = "123" -> "code32(123)"
    [] text = "999" -> "code32(999)"
    [] OTHER -> text

\* getBarcode, case 'single' / 'mixed_continue': the rest of the executor
\* after "await this.barcodeScanner.scan(...).first().toPromise()"
pluginScanResult(w, k, barcodeScanResult) ==
  IF barcodeScanResult.cancelled THEN Settle(w, k, FALSE, Cancelled)
  ELSE LET text == IF /\ barcodeScanResult.text # ""
                      /\ barcodeScanResult.format = "CODE_39"
                      /\ "CODE_32" \in w.this.barcodeFormats
                   THEN convertCode39ToCode32(barcodeScanResult.text)
                   ELSE barcodeScanResult.text
       IN Settle(w, k, TRUE, text)

\* barcodeScanner.scan(pluginOptions).first() answers one one-shot request
PluginScanResult(k, r) ==
  /\ Idle
  /\ inv[k].pc = "barcode" /\ inv[k].req = "plugin"
  /\ Commit(pluginScanResult(World, k, r))
  /\ Answer
  /\ UNCHANGED << now, platform, settings, userModes, drafts, nCalls, minted >>

\* this.lastResolve(text) / this.lastReject(): settles the promise of the last
\* getBarcode call; a promise settles once
LastSettle(w, ok, value) ==
  LET lr == w.this.lastResolve IN
  IF lr.settled THEN w
  ELSE Settle([w EXCEPT !.this.lastResolve.settled = TRUE], lr.inv, ok, value)

continuosScanNext_NoFix(w, barcodeScanResult) ==
  IF barcodeScanResult.cancelled
  THEN LastSettle([w EXCEPT !.this.continuosScanSubscription = FALSE], FALSE, Cancelled)
  ELSE LastSettle(w, TRUE, barcodeScanResult.text)

\* the subscribe callback of the continuous scan
continuosScanNext(w, barcodeScanResult) ==
  IF barcodeScanResult.cancelled
  THEN LastSettle([w EXCEPT !.this.continuosScanSubscription = FALSE], FALSE, Cancelled)
  ELSE LET text == IF /\ barcodeScanResult.text # ""
                      /\ barcodeScanResult.format = "CODE_39"
                      /\ "CODE_32" \in w.this.barcodeFormats
                   THEN convertCode39ToCode32(barcodeScanResult.text)
                   ELSE barcodeScanResult.text
       IN LastSettle(w, TRUE, text)

ContinuosScanResult(r) ==
  /\ Idle
  /\ this.continuosScanSubscription
  /\ Commit(continuosScanNext(World, r))
  /\ Answer
  /\ UNCHANGED << now, platform, settings, userModes, drafts, nCalls, minted >>

\* the buttons of the quantity alert
quantityButton(w, k, button, data) ==
  IF button = "Cancel" THEN Settle(w, k, FALSE, Cancelled)
  ELSE IF data # "" THEN Settle(w, k, TRUE, data)
  ELSE IF w.this.quantityType = "number" THEN Settle(w, k, TRUE, "1")
  ELSE [w EXCEPT !.inv[k].req = "dismissed"]

QuantityButton(k, button, data) ==
  /\ Idle
  /\ inv[k].pc = "quantity" /\ inv[k].req = "alert"
  /\ Commit(quantityButton(World, k, button, data))
  /\ Answer
  /\ UNCHANGED << now, platform, settings, userModes, drafts, nCalls, minted >>

SelectOptionOk(k, data) ==
  /\ Idle
  /\ inv[k].pc = "select_option" /\ inv[k].req = "alert"
  /\ Commit(Settle(World, k, TRUE, data))
  /\ Answer
  /\ UNCHANGED << now, platform, settings, userModes, drafts, nCalls, minted >>

\* the Stop and Continue buttons of the add-more alert: clearInterval, resolve
addMoreButton(w, k, addMore) ==
  Settle([w EXCEPT !.inv[k].timeoutSeconds = 0], k, addMore, "")

AddMoreAnswer(k, addMore) ==
  /\ Idle
  /\ inv[k].pc = "add_more" /\ inv[k].req = "alert"
  /\ Commit(addMoreButton(World, k, addMore))
  /\ Answer
  /\ UNCHANGED << now, platform, settings, userModes, drafts, nCalls, minted >>

\* the setInterval callback of the add-more alert, once a second
addMoreInterval(w, k) ==
  LET timeoutSeconds == w.inv[k].timeoutSeconds IN
  IF ~Truthy(timeoutSeconds) \/ timeoutSeconds <= 0
  THEN Settle([w EXCEPT !.inv[k].timeoutSeconds = 0], k, TRUE, "")
  ELSE [w EXCEPT !.inv[k].timeoutSeconds = @ - 1]

\* the firing that resolves the prompt is the alert's answer
AddMoreInterval(k) ==
  /\ Idle
  /\ inv[k].pc = "add_more" /\ inv[k].req = "alert"
  /\ Commit(addMoreInterval(World, k))
  /\ IF ~Truthy(inv[k].timeoutSeconds) \/ inv[k].timeoutSeconds <= 0
     THEN Answer ELSE UNCHANGED nAnswers
  /\ UNCHANGED << now, platform, settings, userModes, drafts, nCalls, minted >>

InfiniteLoopAnswer(k, wantToContinue) ==
  /\ Idle
  /\ inv[k].pc = "infinite_loop" /\ inv[k].req = "alert"
  /\ wantToContinue => inv[k].againCount < MaxAgainCount
  /\ Commit(Settle(World, k, wantToContinue, ""))
  /\ Answer
  /\ UNCHANGED << now, platform, settings, userModes, drafts, nCalls, minted >>

\* "setTimeout(() => againCount = 0, 500)" fires
ResetAgainCount(k) ==
  /\ Idle
  /\ inv[k].resetAgainCountTimer # 0
  /\ now >= inv[k].resetAgainCountTimer
  /\ Commit([World EXCEPT !.inv[k].againCount = 0, !.inv[k].resetAgainCountTimer = 0,
                          !.inv[k].confirmed = FALSE, !.inv[k].streak = 0])
  /\ UNCHANGED << now, platform, settings, userModes, drafts, nCalls, nAnswers, minted >>

\* the user saves an edited output profile in the settings
SaveOutputProfile(p) ==
  /\ Idle
  /\ p \in drafts
  /\ drafts' = drafts \ {p}
  /\ settings' = [settings EXCEPT !.outputProfile = p]
  /\ Commit(World)
  /\ UNCHANGED << now, platform, userModes, nCalls, nAnswers, minted >>

\* updateCurrentOutputProfile() up to "await this.settings.getOutputProfiles()"
updateCurrentOutputProfile(w) == [w EXCEPT !.this.updating = TRUE]

\* the page calls it when a scan has loaded a profile and another one has been
\* saved since
UpdateCurrentOutputProfile ==
  /\ Idle
  /\ ~this.updating
  /\ this.outputProfile # << >> /\ this.outputProfile # settings.outputProfile
  /\ Commit(updateCurrentOutputProfile(World))
  /\ UNCHANGED << now, platform, settings, userModes, drafts, nCalls, nAnswers, minted >>

\* "this.outputProfile = await this.getOutputProfile(...)": the stored profile
\* has arrived
outputProfileRead(w) ==
  [w EXCEPT !.this.outputProfile = settings.outputProfile, !.this.updating = FALSE]

OutputProfileRead ==
  /\ Idle
  /\ this.updating
  /\ Commit(outputProfileRead(World))
  /\ UNCHANGED << now, platform, settings, userModes, drafts, nCalls, nAnswers, minted >>

\* time passes; a timer that is due fires before more time passes
Tick ==
  /\ Idle
  /\ \A k \in Invocations : inv[k].resetAgainCountTimer = 0 \/ inv[k].resetAgainCountTimer > now
  /\ now < MaxTicks * TickMs
  /\ now' = now + TickMs
  /\ Commit(World)
  /\ UNCHANGED << platform, settings, userModes, drafts, nCalls, nAnswers, minted >>

Next ==
  \/ \E m \in ScanModes : Scan(m)
  \/ \E k \in Invocations : Subscribe(k)
  \/ \E k \in Invocations : SettingsLoaded(k)
  \/ \E k \in Invocations : Again(k)
  \/ Resume
  \/ \E t \in Barcodes : KeyboardSubmit(t)
  \/ \E k \in Invocations, r \in BarcodeScanResults : PluginScanResult(k, r)
  \/ \E r \in BarcodeScanResults : ContinuosScanResult(r)
  \/ \E k \in Invocations, b \in {"Ok", "Cancel"}, d \in QuantityInputs : QuantityButton(k, b, d)
  \/ \E k \in Invocations, d \in SelectOptions : SelectOptionOk(k, d)
  \/ \E k \in Invocations, a \in BOOLEAN : AddMoreAnswer(k, a)
  \/ \E k \in Invocations : AddMoreInterval(k)
  \/ \E k \in Invocations, a \in BOOLEAN : InfiniteLoopAnswer(k, a)
  \/ \E k \in Invocations : ResetAgainCount(k)
  \/ \E p \in Profiles : SaveOutputProfile(p)
  \/ UpdateCurrentOutputProfile
  \/ OutputProfileRead
  \/ Tick

Spec == Init /\ [][Next]_vars

\* the same program, used with every scanning mode on one instance
SpecModes == InitModes /\ [][Next]_vars

TypeOK ==
  /\ nCalls \in 0..MaxCalls
  /\ \A k \in Invocations : inv[k].againCount \in 0..(MaxAgainCount + 1)

\* ------------------------------------------------------------- properties

\* the step is the continuation of invocation k's suspended pass
ResumeOf(k) ==
  /\ microtasks # << >>
  /\ Head(microtasks).inv = k
  /\ microtasks' = Tail(microtasks)

\* the request invocation k is suspended at has neither resolved nor rejected
Outstanding(k) ==
  /\ inv[k].pc \in Suspended
  /\ \A j \in 1..Len(microtasks) : microtasks[j].inv # k

\* the sequence returned by the k-th scan() call is subscribed and not completed
Active(k) == inv[k].subscribed /\ ~inv[k].stopped

\* some collaborator still holds the means to settle the request of k
Resumable(k) ==
  \/ ~Outstanding(k)
  \/ inv[k].req \in {"plugin", "alert"}
  \/ inv[k].req = "manual" /\ \E j \in 1..Len(onSubmit) : onSubmit[j] = k
  \/ inv[k].req = "continue" /\ this.lastResolve = [inv |-> k, settled |-> FALSE]

AbortReasons == {"user-cancelled", "invalid-condition", "superseded"}

\* C1: when scan() has been called while a pass was suspended in getBarcode,
\* the resumed pass returns at once: it emits nothing and writes neither its
\* variables nor its working blocks.
C1_SupersededBarcodePassIsDropped ==
  [][\A k \in Invocations :
       (ResumeOf(k) /\ inv[k].pc = "barcode" /\ inv[k].sup)
         => /\ returned'.inv = k /\ returned'.why \in {"superseded", "user-cancelled"}
            /\ emit'.inv # k]_vars

\* C2: at most one acquisition request is outstanding at any time.
C2_AtMostOneOutstandingRequest ==
  Cardinality({k \in Invocations : Outstanding(k)}) <= 1

\* C3: at most one result sequence is active, and every sequence returned by
\* an earlier scan() call is completed once scan() has been called again.
C3_AtMostOneActiveSequence ==
  /\ Cardinality({k \in Invocations : Active(k)}) <= 1
  /\ \A k \in Invocations : (k < nCalls /\ inv[k].subscribed) => inv[k].stopped

\* C4: every scan() call sets _scanCallId to a value no earlier call has set.
C4_TokensAreDistinct ==
  \A i, j \in 1..Len(minted) : i # j => minted[i] # minted[j]

\* C5: an invocation whose settings finish loading after a newer scan() call
\* (which set a different token) treats itself as superseded: it returns
\* without running a pass or issuing a request.
C5_TokenCapturedAtStart ==
  [][\A k \in Invocations :
       (inv[k].pc = "loading" /\ inv'[k].pc # "loading"
          /\ k < nCalls /\ minted[k] # this.scanCallId)
         => returned' = [inv |-> k, why |-> "superseded"]]_vars

\* C6: a pass that resumes from any suspension point with a token that is no
\* longer current returns at once, without resolving a block, issuing a
\* request or emitting a result.
C6_TokenRecheckedAfterEverySuspension ==
  [][\A k \in Invocations :
       (ResumeOf(k) /\ inv[k].scanCallId # this.scanCallId)
         => /\ returned'.inv = k
            /\ returned'.why \in {"superseded", "user-cancelled", "declined", "stopped"}
            /\ emit'.inv # k]_vars

\* C7: a pass superseded by a newer scan() call (its token is no longer the
\* current one) never stays suspended forever: as long as it is suspended,
\* some collaborator is able to settle its request.
C7_SupersededPassCanTerminate ==
  \A k \in Invocations :
    (k < nCalls /\ inv[k].pc \in Suspended /\ inv[k].scanCallId # this.scanCallId)
      => Resumable(k)

\* C8: when a pass aborts (prompt or acquisition cancelled, If condition fails
\* to evaluate, pass superseded) its sequence is completed and the step emits
\* no result record.
C8_AbortCompletesWithoutResult ==
  (returned.inv # 0 /\ returned.why \in AbortReasons)
    => inv[returned.inv].stopped /\ emit = NoScan

\* a quantity prompt was cancelled and the pass has aborted
C8_Witness ==
  /\ returned.inv # 0 /\ returned.why = "user-cancelled"
  /\ settings.outputProfile = ProfilePrompts /\ this.acqusitionMode = "manual"

PassCompleted(k) == emit'.inv = k /\ inv'[k].pc # "done"

\* the timer set by the last completed pass of k fires in the step
TimerFired(k) ==
  inv[k].resetAgainCountTimer # 0 /\ inv'[k].resetAgainCountTimer = 0 /\ inv'[k].pc # "done"

\* C10 as claimed: after a completed pass againCount is its previous value
\* plus one when display_value repeats and zero when it differs.
C10_CounterResetsOnDifference ==
  [][\A k \in Invocations :
       PassCompleted(k) =>
         inv'[k].againCount =
           IF ScanToString(emit'.outputBlocks) = inv[k].prevScanDisplayValue
           THEN inv[k].againCount + 1 ELSE 0]_vars

\* C10 amended: after a completed pass againCount is its previous value plus
\* one when display_value equals prevScanDisplayValue and is unchanged when it
\* differs; it becomes zero when the timer set by the last completed pass
\* fires, no earlier than 500 ms after that pass.
C10_CounterKeptOnDifference ==
  [][\A k \in Invocations :
       /\ PassCompleted(k) =>
            /\ inv'[k].againCount =
                 IF ScanToString(emit'.outputBlocks) = inv[k].prevScanDisplayValue
                 THEN inv[k].againCount + 1 ELSE inv[k].againCount
            /\ inv'[k].prevScanDisplayValue = ScanToString(emit'.outputBlocks)
            /\ inv'[k].resetAgainCountTimer = now + ResetAgainCountDelay
       /\ TimerFired(k) =>
            inv'[k].againCount = 0 /\ now >= inv[k].resetAgainCountTimer]_vars

\* a pass completed with a display_value different from the previous one
\* while againCount was positive, and againCount kept its value
C10_Witness ==
  /\ emit.inv # 0 /\ ~emit.repeated /\ emit.againCountWas > 0
  /\ inv[emit.inv].againCount = emit.againCountWas

\* the step requests the infinite-loop confirmation for invocation k
LoopConfirmationRequested(k) == inv[k].pc # "infinite_loop" /\ inv'[k].pc = "infinite_loop"

\* C11: the infinite-loop confirmation is requested once per crossing of the
\* threshold: once the user has chosen to continue, it is not requested again
\* as long as againCount has not dropped back to 30 or below.
C11_OneConfirmationPerCrossing ==
  [][\A k \in Invocations : LoopConfirmationRequested(k) => ~inv[k].confirmed]_vars

\* the step runs the then() of Promise.all for invocation k
Loaded(k) == inv[k].pc = "loading" /\ inv'[k].pc # "loading"

\* the table of the effective acquisition mode
EffectiveMode(requested, blocking, android, timeoutConfigured) ==
  IF requested = "SCAN_MODE_ENTER_MAUALLY" THEN "manual"
  ELSE IF requested = "SCAN_MODE_SINGLE" THEN "single"
  ELSE IF ~blocking /\ android /\ ~timeoutConfigured THEN "continue"
  ELSE "mixed_continue"

\* the stored profile has a select-option or a quantity block
BlockingComponentPresent ==
  \E j \in 1..Len(settings.outputProfile) :
    \/ settings.outputProfile[j].type = "select_option"
    \/ settings.outputProfile[j] = Block("variable", "quantity")

\* the effective mode of the sequence the k-th scan() call returned
ModeOf(k) ==
  EffectiveMode(inv[k].scanMode, BlockingComponentPresent, platform = "android",
                settings.continueModeTimeout \notin {0, Undefined})

\* C12: when an invocation has read its settings, the effective acquisition
\* mode is the one the table gives for the requested mode, the profile's
\* blocking components, the platform and the continue-mode timeout (0 or
\* absent: none), and the plugin's continuousMode option is true exactly when
\* that mode is 'continue'.
C12_ModeIsFunctionOfInputs ==
  [][\A k \in Invocations :
       Loaded(k) =>
         /\ this'.acqusitionMode = ModeOf(k)
         /\ this'.pluginOptions.continuousMode = (this'.acqusitionMode = "continue")]_vars

\* continue was requested on android with no blocking component and no
\* timeout: the hardware stream is in use
C12_Witness ==
  /\ this.acqusitionMode = "continue" /\ this.pluginOptions.continuousMode
  /\ this.continuosScanSubscription

\* C13: a sequence started in single mode completes in the step in which its
\* first pass hands over its result: its again() returns, so it emits no second
\* result and issues no acquisition request after it.
C13_SingleCompletesAfterFirstPass ==
  [][\A k \in Invocations :
       (inv[k].scanMode = "SCAN_MODE_SINGLE" /\ emit'.inv = k /\ emit'.delivered)
         => /\ returned'.inv = k
            /\ inv'[k].stopped
            /\ inv'[k].pc = "done"]_vars

\* C14: in a mixed_continue sequence every emitted result is followed by the
\* add-more prompt with the configured countdown; while the prompt is open
\* the sequence runs nothing; when it resolves true the loop body runs again
\* (the next pass begins, unless the loop body finds itself superseded or asks
\* the infinite-loop confirmation first), and when it resolves false the
\* sequence completes and no pass begins.
C14_AddMoreGateInMixedContinue ==
  [][\A k \in Invocations :
       ModeOf(k) = "mixed_continue" =>
         /\ emit'.inv = k =>
              inv'[k].pc = "add_more" /\ inv'[k].timeoutSeconds = settings.continueModeTimeout
         /\ (inv[k].pc = "add_more" /\ ~ResumeOf(k)) =>
              inv'[k].pc = "add_more" /\ emit'.inv # k
         /\ (inv[k].pc = "add_more" /\ ResumeOf(k) /\ Head(microtasks).ok) =>
              \/ inv'[k].pass.started
              \/ returned' = [inv |-> k, why |-> "superseded"]
              \/ inv'[k].pc = "infinite_loop"
         /\ (inv[k].pc = "add_more" /\ ResumeOf(k) /\ ~Head(microtasks).ok) =>
              /\ returned' = [inv |-> k, why |-> "declined"]
              /\ inv'[k].stopped /\ emit'.inv # k]_vars

\* C15: in a continue or manual sequence every emitted result is followed at
\* once by the loop body, with no add-more prompt, and the sequence completes
\* only when a pass aborts, when it is superseded by a new scan() call, or when
\* the user stops at the infinite-loop confirmation.
C15_ContinueAndManualLoopAtOnce ==
  [][\A k \in Invocations :
       ModeOf(k) \in {"continue", "manual"} =>
         /\ emit'.inv = k => inv'[k].pc = "again"
         /\ inv'[k].pc # "add_more"
         /\ (~inv[k].stopped /\ inv'[k].stopped) =>
              \/ nCalls' = nCalls + 1
              \/ returned'.inv = k /\ returned'.why \in AbortReasons \cup {"stopped"}]_vars

\* the EndIf that closes the If at position j of a well-nested profile: the
\* first EndIf after j with as many Ifs as EndIfs between the two
MatchingEndIf(blocks, j) ==
  LET Between(m, t) == Cardinality({n \in (j + 1)..(m - 1) : blocks[n].type = t})
      Closes(m) == blocks[m].type = "endif" /\ Between(m, "if") = Between(m, "endif")
  IN CHOOSE m \in (j + 1)..Len(blocks) : Closes(m) /\ \A n \in (j + 1)..(m - 1) : ~Closes(n)

\* what a block that needs no acquisition resolves to
ResolvedBlock(block) ==
  IF block = Block("variable", "deviceName") THEN Block("variable", settings.deviceName) ELSE block

\* the resolved blocks of a profile whose conditions are the constants true and
\* false: a true If leaves its bracketed content in place without the two
\* markers, a false If disappears with everything up to its EndIf
RECURSIVE ResolvedBlocks(_)
ResolvedBlocks(blocks) ==
  IF blocks = << >> THEN << >>
  ELSE IF Head(blocks).type = "if"
       THEN LET m == MatchingEndIf(blocks, 1) IN
            IF Head(blocks).value = "true"
            THEN ResolvedBlocks(SubSeq(blocks, 2, m - 1) \o SubSeq(blocks, m + 1, Len(blocks)))
            ELSE ResolvedBlocks(SubSeq(blocks, m + 1, Len(blocks)))
  ELSE << ResolvedBlock(Head(blocks)) >> \o ResolvedBlocks(Tail(blocks))

\* C16: for the well-nested profiles with 0, 1 and 2 levels of If nesting and
\* every outcome of their conditions, the blocks a pass emits are those of the
\* profile with, for every true If, only the If and its matching EndIf
\* removed and, for every false If, the whole range up to its matching EndIf
\* removed; every block left, also the one right after a removal, is resolved.
C16_IfRemovesMarkersOrRange ==
  (emit.inv # 0 /\ settings.outputProfile \in NestingProfiles)
    => emit.outputBlocks = ResolvedBlocks(settings.outputProfile)

\* a pass over a profile with two levels of nesting, outer If true and inner
\* If false, has emitted its result
C16_Witness ==
  /\ emit.inv # 0
  /\ settings.outputProfile = ProfileNested("true", "false")
  /\ Len(emit.outputBlocks) = 3

\* C17: with the profile [L1, Barcode, If(barcode == '123'), MATCH, EndIf], a
\* pass that acquires barcode b emits [L1, Barcode(b), MATCH] when b is '123'
\* and [L1, Barcode(b)] otherwise: the If sees the barcode of the same pass.
C17_IfSeesAcquiredBarcode ==
  [][\A k \in Invocations :
       (ResumeOf(k) /\ inv[k].pc = "barcode" /\ emit'.inv = k
          /\ inv[k].pass.template = ProfileIfBarcode)
         => LET b == Head(microtasks).value IN
            emit'.outputBlocks =
              IF b = "123"
              THEN << Block("text", "L1"), Block("barcode", b), Block("text", "MATCH") >>
              ELSE << Block("text", "L1"), Block("barcode", b) >>]_vars

\* a pass has acquired '123' and emitted the block inside the If
C17_Witness ==
  /\ emit.inv # 0
  /\ emit.outputBlocks = << Block("text", "L1"), Block("barcode", "123"), Block("text", "MATCH") >>

\* the text a scanned barcode is passed on with
PassedOnText(r) ==
  IF r.format = "CODE_39" /\ "CODE_32" \in settings.barcodeFormats
  THEN convertCode39ToCode32(r.text) ELSE r.text

\* C18: a barcode the plugin returns is passed to the waiting pass as its
\* CODE_32 form when its format is CODE_39 and CODE_32 is enabled in the
\* settings, and unchanged otherwise, both when it answers a one-shot request
\* and when it comes from the continuous stream.
C18_Code39RewrittenIffCode32Enabled ==
  [][\A r \in BarcodeScanResults \ {ScanCancelled} :
       /\ \A k \in Invocations :
            PluginScanResult(k, r) =>
              microtasks' = Append(microtasks, [inv |-> k, ok |-> TRUE, value |-> PassedOnText(r)])
       /\ (ContinuosScanResult(r) /\ ~this.lastResolve.settled) =>
            microtasks' = Append(microtasks, [inv |-> this.lastResolve.inv, ok |-> TRUE,
                                              value |-> PassedOnText(r)])]_vars

\* the continuous stream has delivered a CODE_39 barcode while CODE_32 is
\* enabled, and its CODE_32 form is on its way to the pass
C18_Witness ==
  /\ this.acqusitionMode = "continue" /\ "CODE_32" \in this.barcodeFormats
  /\ microtasks # << >> /\ Head(microtasks).value = convertCode39ToCode32("123")

\* C19: a pass over [Function(failing expression), DeviceVariable] resolves
\* the Function block to the empty string, resolves the block after it and
\* emits its result in the step in which it starts; a pass that reaches an If
\* whose condition fails to evaluate aborts: it returns without a result.
C19_FunctionFailureContinuesIfFailureAborts ==
  [][\A k \in Invocations :
       /\ (settings.outputProfile = ProfileFunctionThrows /\ Loaded(k)) =>
            /\ emit'.inv = k
            /\ emit'.outputBlocks = << Block("function", ""), Block("variable", settings.deviceName) >>
       /\ (inv[k].pass.template = ProfileIfThrows /\ ResumeOf(k) /\ Head(microtasks).ok
             /\ inv[k].scanCallId = this.scanCallId) =>
            /\ returned' = [inv |-> k, why |-> "invalid-condition"]
            /\ inv'[k].stopped
            /\ emit' = NoScan]_vars

\* a pass with a failing Function block has emitted its result
C19_Witness ==
  /\ emit.inv # 0 /\ emit.delivered
  /\ emit.outputBlocks = << Block("function", ""), Block("variable", "dev") >>

\* C20 as claimed: an If whose condition fails to evaluate presents one alert;
\* a Function whose expression fails to evaluate presents none.
C20_FunctionFailureIsSilent ==
  /\ (returned.inv # 0 /\ returned.why = "invalid-condition") => alert = 1
  /\ settings.outputProfile = ProfileFunctionThrows => alert = 0

\* C20 amended: every evaluation failure presents one 'Error' alert, in an If
\* block (the pass aborts) and in a Function block (the pass emits its
\* result); a step in which no evaluation fails presents none.
C20_EveryFailureIsAlerted ==
  /\ (returned.inv # 0 /\ returned.why = "invalid-condition") => alert = 1
  /\ (settings.outputProfile = ProfileFunctionThrows /\ emit.inv # 0) => alert = 1
  /\ alert # 0 =>
       \/ returned.inv # 0 /\ returned.why = "invalid-condition"
       \/ settings.outputProfile = ProfileFunctionThrows /\ emit.inv # 0

\* the failing Function block of an emitted result has presented its alert
C20_Witness ==
  /\ settings.outputProfile = ProfileFunctionThrows
  /\ emit.inv # 0 /\ emit.outputBlocks[1] = Block("function", "") /\ alert = 1

\* the step puts a profile read from the settings in this.outputProfile: the
\* then() of Promise.all or the end of updateCurrentOutputProfile()
ProfileRead ==
  \/ \E k \in Invocations : Loaded(k)
  \/ this.updating /\ ~this'.updating

\* C21: the master template is what was last read from the settings, after any
\* number of passes and scan() calls: this.outputProfile changes only in a step
\* that reads the stored profile, and then to that profile; what passes resolve
\* and what they remove with If/EndIf changes their working copy alone.
C21_TemplateOnlyReplacedByRead ==
  [][this'.outputProfile # this.outputProfile
       => ProfileRead /\ this'.outputProfile = settings.outputProfile]_vars

\* a pass has emitted a working copy it resolved and pruned, and the master
\* template is still the stored profile
C21_Witness ==
  /\ emit.inv # 0
  /\ Len(emit.outputBlocks) < Len(this.outputProfile)
  /\ \E j \in 1..Len(emit.outputBlocks) : emit.outputBlocks[j] = Block("barcode", "999")
  /\ this.outputProfile = settings.outputProfile

\* C22: for every well-nested profile and every outcome of its conditions, the
\* blocks a pass emits contain no 'if' block and no 'endif' block.
C22_NoMarkerIsEmitted ==
  emit.inv # 0 =>
    \A j \in 1..Len(emit.outputBlocks) : emit.outputBlocks[j].type \notin {"if", "endif"}

\* a pass over two directly nested true Ifs has emitted the content and the
\* block after the two EndIfs
C22_Witness ==
  /\ emit.inv # 0
  /\ settings.outputProfile = ProfileNestedTight("true", "true")
  /\ emit.outputBlocks = << Block("text", "IN"), Block("variable", "dev") >>

C24_SameContextSameValue ==
  [][\A k \in Invocations :
       (emit'.inv = k /\ inv[k].pass.template = ProfileReadsEngine
          /\ inv[k].prevScanDisplayValue # << >>)
         => Len(emit'.outputBlocks) = Len(inv[k].prevScanDisplayValue)]_vars

\* the step runs the loop body again() of invocation k from its start
LoopIterationStarts(k) ==
  \/ inv[k].pc = "again" /\ inv'[k] # inv[k]
  \/ inv[k].pc = "add_more" /\ ResumeOf(k) /\ Head(microtasks).ok

\* C25: when againCount exceeds 30 at the start of a loop iteration (of an
\* invocation that is still the current one), the infinite-loop confirmation
\* is requested and no block of a next pass is executed before it is answered;
\* when the user chooses stop, the sequence completes, and from then on the
\* invocation runs no pass, issues no request and emits no result.
C25_ConfirmationBeforeNextPass ==
  [][\A k \in Invocations :
       /\ (LoopIterationStarts(k) /\ inv[k].againCount > InfiniteLoopThreshold
             /\ inv[k].scanCallId = this.scanCallId) =>
            /\ inv'[k].pc = "infinite_loop" /\ inv'[k].req = "alert"
            /\ ~inv'[k].pass.started
            /\ emit'.inv # k
       /\ (inv[k].pc = "infinite_loop" /\ ~ResumeOf(k)) =>
            inv'[k].pc = "infinite_loop" /\ ~inv'[k].pass.started /\ emit'.inv # k
       /\ (inv[k].pc = "infinite_loop" /\ ResumeOf(k) /\ ~Head(microtasks).ok) =>
            /\ returned' = [inv |-> k, why |-> "stopped"]
            /\ inv'[k].stopped /\ inv'[k].pc = "done"
            /\ emit'.inv # k
       /\ inv[k].pc = "done" =>
            /\ inv'[k].pc = "done" /\ inv'[k].req = "none" /\ ~inv'[k].pass.started
            /\ emit'.inv # k]_vars

\* the user has chosen stop at the infinite-loop confirmation
C25_Witness ==
  /\ returned.inv # 0 /\ returned.why = "stopped"
  /\ inv[returned.inv].stopped /\ inv[returned.inv].pc = "done"

\* the pass of invocation k is suspended at an acquisition request
Acquiring(k) == inv[k].pass.started /\ inv[k].pc \in {"barcode", "quantity", "select_option"}

\* a block of the working copy that asks for an acquisition when the for loop
\* reaches it
AcquisitionBlock(block) ==
  \/ block.type \in {"barcode", "select_option"}
  \/ block = Block("variable", "quantity")

\* the request a block asks for
RequestOf(block) ==
  IF block.type = "variable" THEN "quantity" ELSE block.type

\* C26: within one pass the acquisition requests are issued from left to right
\* over the blocks left after pruning, one at a time: the request a pass is
\* suspended at is the one of the block the loop has reached, the first request
\* of a pass is for its first acquisition block, and the request that follows
\* the continuation of a resolved one is for the next acquisition block after
\* it, with none in between.
C26_RequestsInBlockOrder ==
  [][\A k \in Invocations :
       /\ Acquiring(k)' =>
            LET pass == inv'[k].pass IN
            /\ pass.i \in 1..Len(pass.outputBlocks)
            /\ AcquisitionBlock(pass.outputBlocks[pass.i])
            /\ RequestOf(pass.outputBlocks[pass.i]) = inv'[k].pc
       /\ (~inv[k].pass.started /\ Acquiring(k)') =>
            \A j \in 1..(inv'[k].pass.i - 1) : ~AcquisitionBlock(inv'[k].pass.outputBlocks[j])
       /\ (Acquiring(k) /\ Acquiring(k)' /\ inv'[k].pass # inv[k].pass) =>
            /\ ResumeOf(k)
            /\ inv'[k].pass.i > inv[k].pass.i
            /\ \A j \in (inv[k].pass.i + 1)..(inv'[k].pass.i - 1) :
                 ~AcquisitionBlock(inv'[k].pass.outputBlocks[j])]_vars

\* a pass has had its quantity and its option resolved and is suspended at its
\* barcode, the third block
C26_Witness ==
  \E k \in Invocations :
    /\ Acquiring(k) /\ inv[k].pc = "barcode" /\ inv[k].pass.i = 3
    /\ inv[k].pass.outputBlocks[1] = Block("variable", "5")
    /\ inv[k].pass.template = ProfilePrompts

\* C27: no block inside the range of a false If is executed, nested If/EndIf
\* pairs included: no request is issued for it and no variable changes.  With
\* [If(false), Barcode, EndIf] no pass ever asks for a barcode and every result
\* is empty; with [Barcode, If(barcode == '123'), If(true), Barcode, EndIf,
\* Quantity, EndIf, E] a pass whose first barcode is not '123' asks for nothing
\* more and emits [Barcode, E] with only that barcode in its variables.
C27_FalseRangeIsNotExecuted ==
  /\ settings.outputProfile = ProfileIfFalse =>
       /\ \A k \in Invocations : ~Acquiring(k)
       /\ emit.inv # 0 => emit.outputBlocks = << >> /\ emit.variables = NoVariables
  /\ settings.outputProfile = ProfileBranch =>
       /\ \A k \in Invocations :
            (Acquiring(k) /\ inv[k].pass.i > 1) => inv[k].pass.variables.barcodes[1] = "123"
       /\ (emit.inv # 0 /\ emit.variables.barcodes[1] # "123") =>
            LET b == emit.variables.barcodes[1] IN
            /\ emit.outputBlocks = << Block("barcode", b), Block("text", "E") >>
            /\ emit.variables = [barcode |-> b, barcodes |-> << b >>, quantity |-> "null"]

\* a pass has skipped the nested range after a first barcode other than '123'
C27_Witness ==
  /\ settings.outputProfile = ProfileBranch
  /\ emit.inv # 0
  /\ emit.outputBlocks = << Block("barcode", "999"), Block("text", "E") >>

IsBarcodeBlock(block) == block.type = "barcode"

\* the values of the barcode blocks among the first n blocks, in block order
BarcodeValues(outputBlocks, n) ==
  LET resolved == SelectSeq(SubSeq(outputBlocks, 1, n), IsBarcodeBlock)
  IN [j \in 1..Len(resolved) |-> resolved[j].value]

\* the relation between the two variables
LastOf(variables) ==
  variables.barcode =
    IF variables.barcodes = << >> THEN "" ELSE variables.barcodes[Len(variables.barcodes)]

\* C28: at every point of a pass, `barcodes` is the sequence of the barcodes
\* the pass has acquired so far, in acquisition order (the values of the
\* barcode blocks the loop has passed; none at the start), and `barcode` is ''
\* while `barcodes` is empty and its last element otherwise; the same holds of
\* the variables a pass ends with.
C28_BarcodesAreTheAcquiredOnes ==
  /\ \A k \in Invocations :
       inv[k].pass.started =>
         /\ inv[k].pass.variables.barcodes =
              BarcodeValues(inv[k].pass.outputBlocks, inv[k].pass.i - 1)
         /\ LastOf(inv[k].pass.variables)
  /\ emit.inv # 0 =>
       /\ emit.variables.barcodes = BarcodeValues(emit.outputBlocks, Len(emit.outputBlocks))
       /\ LastOf(emit.variables)

\* a pass that has acquired two barcodes is suspended at its quantity prompt
C28_Witness ==
  \E k \in Invocations :
    /\ inv[k].pass.started /\ inv[k].pc = "quantity"
    /\ inv[k].pass.variables.barcodes = << "123", "999" >>
    /\ inv[k].pass.variables.barcode = "999"

\* C29: in 'continue' mode every barcode the stream delivers between its
\* subscription and its cancellation is consumed by a Barcode block: when it
\* is delivered a getBarcode promise is waiting for it, and the pass that
\* receives it goes on with it instead of dropping it as superseded.
C29_StreamBarcodesAreConsumed ==
  [][/\ \A r \in BarcodeScanResults \ {ScanCancelled} :
          ContinuosScanResult(r) => ~this.lastResolve.settled
     /\ \A k \in Invocations :
          (ResumeOf(k) /\ inv[k].pc = "barcode" /\ inv[k].req = "continue" /\ Head(microtasks).ok)
            => returned'.why # "superseded"]_vars

\* C30: in manual or continue mode a profile that reaches no suspension point
\* does not repeat without the user being asked: the infinite-loop
\* confirmation is requested before a 33rd pass in a row begins (passes with
\* one display_value, the 500 ms timer not firing and nobody being asked in
\* between), because againCount is never more than one behind the length of
\* the row.
C30_AskedBeforeThe33rdPass ==
  \A k \in Invocations :
    /\ inv[k].streak <= InfiniteLoopThreshold + 2
    /\ inv[k].streak <= inv[k].againCount + 1

\* the 31st pass in a row over [If(false), Barcode, EndIf] has just ended:
\* the confirmation comes next
C30_Witness ==
  \E k \in Invocations :
    /\ settings.outputProfile = ProfileIfFalse
    /\ inv[k].pc = "again"
    /\ inv[k].streak = InfiniteLoopThreshold + 1
    /\ inv[k].againCount > InfiniteLoopThreshold

\* C31: every button press on the quantity prompt settles the pending request,
\* for every quantity type and input, so that the suspended pass resumes or
\* aborts: Cancel rejects, Ok resolves with the entered string, or with '1'
\* when the input is empty and the quantity type is number.
C31_QuantityButtonSettles ==
  [][\A k \in Invocations, button \in {"Ok", "Cancel"}, data \in QuantityInputs :
       QuantityButton(k, button, data) =>
         /\ Len(microtasks') = Len(microtasks) + 1
         /\ LET settled == microtasks'[Len(microtasks')] IN
            /\ settled.inv = k
            /\ settled.ok = (button = "Ok")
            /\ (button = "Ok" /\ data # "") => settled.value = data
            /\ (button = "Ok" /\ data = "" /\ this.quantityType = "number") =>
                 settled.value = "1"]_vars

\* ------------------------------------------- evalCode, one call on its own

\* Object.keys(variables), in the order the pass writes them
Keys == << "barcode", "barcodes", "quantity", "timestamp", "device_name" >>

\* the characters of a variable name (texts are sequences of characters here,
\* so that the replacement of evalCode can be carried out on them)
Chars(key) ==
  CASE key = "barcode" -> << "b", "a", "r", "c", "o", "d", "e" >>
    [] key = "barcodes" -> << "b", "a", "r", "c", "o", "d", "e", "s" >>
    [] key = "quantity" -> << "q", "u", "a", "n", "t", "i", "t", "y" >>
    [] key = "timestamp" -> << "t", "i", "m", "e", "s", "t", "a", "m", "p" >>
    [] key = "device_name" -> << "d", "e", "v", "i", "c", "e", "_", "n", "a", "m", "e" >>

\* "let randomInt = this.getRandomInt() + ''": some digits
randomInt == << "4", "2" >>

\* 'window["' + randomInt + '"]["_' + key + '"]'
WindowProperty(key) ==
  << "w", "i", "n", "d", "o", "w", "[", "\"" >> \o randomInt \o << "\"", "]", "[", "\"", "_" >> \o Chars(key) \o << "\"", "]" >>

\* code.replace(new RegExp(key, 'g'), replacement): every occurrence, from left
\* to right, the replaced text not scanned again
RECURSIVE ReplaceAll(_, _, _)
ReplaceAll(code, key, replacement) ==
  IF Len(code) < Len(key) THEN code
  ELSE IF SubSeq(code, 1, Len(key)) = key
       THEN replacement \o ReplaceAll(SubSeq(code, Len(key) + 1, Len(code)), key, replacement)
  ELSE << Head(code) >> \o ReplaceAll(Tail(code), key, replacement)

\* the code is one string literal in single quotes
IsStringLiteral(code) ==
  /\ Len(code) >= 2 /\ code[1] = "'" /\ code[Len(code)] = "'"
  /\ \A j \in 2..(Len(code) - 1) : code[j] \notin {"'", "\\"}

\* eval(code) on the rewritten code: a property of window gives the value
\* stored for it, a string literal gives its text, and the other texts the
\* expressions below are rewritten to (a property followed by a letter) are
\* syntax errors
Eval(code, variables) ==
  IF \E j \in 1..Len(Keys) : code = WindowProperty(Keys[j])
  THEN [ok |-> TRUE,
        value |-> variables[Keys[CHOOSE j \in 1..Len(Keys) : code = WindowProperty(Keys[j])]]]
  ELSE IF IsStringLiteral(code) THEN [ok |-> TRUE, value |-> SubSeq(code, 2, Len(code) - 1)]
  ELSE [ok |-> FALSE, value |-> << >>]

\* the expressions evaluated: each variable name, and two string literals
Expressions ==
  { Chars(Keys[j]) : j \in 1..Len(Keys) } \cup { << "'", "b", "a", "r", "c", "o", "d", "e", "'" >>, << "'", "o", "k", "'" >> }

\* the variables of a pass (lines 180-186), every value as the text it prints as
Contexts ==
  { [barcode |-> b[1], barcodes |-> b[2], quantity |-> q, timestamp |-> << "1", "0", "0", "0" >>,
     device_name |-> << "d", "e", "v" >>] :
      b \in { << << >>, << "[", "]" >> >>, << << "1", "2", "3" >>, << "[", "1", "2", "3", "]" >> >> },
      q \in { << "n", "u", "l", "l" >>, << "5" >> } }

Evaluations ==
  { [expression |-> e, code |-> e, variables |-> v, keys |-> Keys, pc |-> "inject",
     value |-> << >>] : e \in Expressions, v \in Contexts }


InitEval ==
  /\ InitProvider({EditingConfiguration})
  /\ evaluation \in Evaluations
  /\ draft = NoDraft

\* one turn of "Object.keys(variables).forEach(key => ...)": the variable is
\* stored on window[randomInt] and the name is replaced in the code
InjectVariable ==
  /\ evaluation.pc = "inject"
  /\ LET key == Head(evaluation.keys) IN
     evaluation' = [evaluation EXCEPT
                      !.code = ReplaceAll(@, Chars(key), WindowProperty(key)),
                      !.keys = Tail(@),
                      !.pc = IF Tail(evaluation.keys) = << >> THEN "eval" ELSE "inject"]
  /\ UNCHANGED << provider, draft >>

\* "try { return eval(code) } catch (error) { ... throw ... }"
RunCode ==
  /\ evaluation.pc = "eval"
  /\ LET result == Eval(evaluation.code, evaluation.variables) IN
     evaluation' = [evaluation EXCEPT
                      !.pc = IF result.ok THEN "returned" ELSE "thrown",
                      !.value = result.value]
  /\ UNCHANGED << provider, draft >>

NextEval == InjectVariable \/ RunCode

SpecEval == InitEval /\ [][NextEval]_vars

\* C32: an expression that consists of a variable name evaluates to that
\* variable's current value, for every variable name (also those that have
\* another name as a prefix), and the text of a string literal is left as
\* written.
C32_NamesAndLiteralsEvaluate ==
  evaluation.pc \in {"returned", "thrown"} =>
    /\ \A j \in 1..Len(Keys) :
         evaluation.expression = Chars(Keys[j]) =>
           /\ evaluation.pc = "returned"
           /\ evaluation.value = evaluation.variables[Keys[j]]
    /\ IsStringLiteral(evaluation.expression) =>
         /\ evaluation.pc = "returned"
         /\ evaluation.value = SubSeq(evaluation.expression, 2, Len(evaluation.expression) - 1)

\* ------------------------- the for loop of the earlier acquireScan, on its own

\* the longest run of blocks before the 'if', inside it and after its 'endif'
MaxBefore == 3
MaxInside == 2
MaxAfter == 3

\* n text blocks that carry their place in their value
TextBlocks(values, n) == [j \in 1..n |-> [type |-> "text", value |-> values[j]]]

\* the profiles the loop is run on: one 'if' at every position up to MaxBefore
DraftProfiles ==
  { TextBlocks(<< "B1", "B2", "B3", "B4" >>, before)
      \o << [type |-> "if", value |-> condition] >>
      \o TextBlocks(<< "I1", "I2", "I3" >>, inside)
      \o << [type |-> "endif", value |-> ""] >>
      \o TextBlocks(<< "A1", "A2", "A3", "A4" >>, after) :
        before \in 0..MaxBefore, inside \in 0..MaxInside, after \in 0..MaxAfter,
        condition \in {"true", "false"} }

InitDraft ==
  /\ InitProvider({EditingConfiguration})
  /\ evaluation = NoEvaluation
  /\ draft \in { [outputBlocks |-> p, i |-> 1, pc |-> "loop"] : p \in DraftProfiles }

\* case 'if' of the earlier acquireScan: "scan.outputBlocks.splice(i, endIfIndex)"
\* when the condition is false.  i and endIfIndex are 0-based in the code and
\* 1-based here, so the count endIfIndex of the code is endIfIndex - 1.
DraftSpliceIf(outputBlocks, i, condition) ==
  LET endIfIndex == FindEndIfIndex(outputBlocks, i + 1) IN
  IF condition = FALSE THEN Splice(outputBlocks, i, endIfIndex - 1) ELSE outputBlocks

\* one turn of "for (let i = 0; i < scan.outputBlocks.length; i++)": the switch
\* on the block's type, then i++
DraftBlock ==
  /\ draft.pc = "loop"
  /\ draft.i <= Len(draft.outputBlocks)
  /\ LET outputBlock == draft.outputBlocks[draft.i] IN
     draft' = [draft EXCEPT
                 !.outputBlocks =
                   IF outputBlock.type = "if"
                   THEN DraftSpliceIf(@, draft.i,
                                      evalCode(outputBlock.value, NoVariables, this).value)
                   ELSE @,
                 !.i = @ + 1]
  /\ UNCHANGED << provider, evaluation >>

\* the loop condition fails: the loop is left
DraftDone ==
  /\ draft.pc = "loop"
  /\ draft.i > Len(draft.outputBlocks)
  /\ draft' = [draft EXCEPT !.pc = "done"]
  /\ UNCHANGED << provider, evaluation >>

NextDraft == DraftBlock \/ DraftDone

SpecDraft == InitDraft /\ [][NextDraft]_vars

\* C33: in the earlier acquireScan, when the condition of the 'if' at index i
\* is false, exactly the blocks from that 'if' to its matching 'endif'
\* inclusive are removed, wherever the 'if' stands in the profile, and the
\* block that followed the 'endif' is the next one the loop processes.
C33_DraftRemovesExactlyTheRange ==
  [][\A endIfIndex \in 1..(MaxBefore + MaxInside + MaxAfter + 2) :
       ( /\ DraftBlock
         /\ draft.outputBlocks[draft.i].type = "if"
         /\ draft.outputBlocks[draft.i].value = "false"
         /\ endIfIndex = FindEndIfIndex(draft.outputBlocks, draft.i + 1) )
       => /\ draft'.outputBlocks =
               SubSeq(draft.outputBlocks, 1, draft.i - 1)
                 \o SubSeq(draft.outputBlocks, endIfIndex + 1, Len(draft.outputBlocks))
          /\ IF endIfIndex < Len(draft.outputBlocks)
             THEN /\ draft'.i <= Len(draft'.outputBlocks)
                  /\ draft'.outputBlocks[draft'.i] = draft.outputBlocks[endIfIndex + 1]
             ELSE draft'.i > Len(draft'.outputBlocks)]_vars

\* the getBarcode request of invocation k has been issued and the pass has not
\* been resumed with its outcome
BarcodePending(k) == inv[k].pc = "barcode"

\* C34: in every reachable state, overlapping scan() invocations included,
\* awaitingForBarcode is true exactly when some getBarcode request is pending.
C34_AwaitingIffBarcodePending ==
  this.awaitingForBarcode <=> (\E k \in Invocations : BarcodePending(k))

\* how getBarcode acquires in an acquisition mode: the plugin's one-shot scan,
\* the continuous stream, or the keyboard input
AcquisitionOf(mode) ==
  CASE mode \in {"single", "mixed_continue"} -> "plugin"
    [] mode = "continue" -> "continue"
    [] OTHER -> "manual"

\* C35: every barcode acquisition of a pass, and the branch taken after the
\* pass (loop, add-more prompt, complete), use the acquisition mode derived by
\* the scan() invocation that owns the pass, also when a later scan() call
\* with another requested mode was made while the pass was suspended.
C35_PassUsesItsOwnMode ==
  [][\A k \in Invocations :
       /\ inv'[k].pc = "barcode" => inv'[k].req = AcquisitionOf(ModeOf(k)')
       /\ emit'.inv = k =>
            CASE ModeOf(k) \in {"continue", "manual"} -> inv'[k].pc = "again"
              [] ModeOf(k) = "mixed_continue" -> inv'[k].pc = "add_more"
              [] OTHER -> returned'.inv = k /\ inv'[k].pc = "done"]_vars

\* the sequence of the k-th scan() call runs in continue mode and has not completed
ActiveContinue(k) == Active(k) /\ inv[k].scanMode = "SCAN_MODE_CONTINUE" /\ ModeOf(k) = "continue"

\* C36: once the sequences that ran in pure continue mode have completed, for
\* whatever reason, the hardware subscription is unsubscribed
\* (continuosScanSubscription is null), and the resolver a stream barcode would
\* be handed to never belongs to a completed sequence.
C36_NoStreamWithoutActiveSequence ==
  this.continuosScanSubscription =>
    /\ \E k \in Invocations : ActiveContinue(k)
    /\ (this.lastResolve.inv \in Invocations /\ ~this.lastResolve.settled) =>
         ~inv[this.lastResolve.inv].stopped

====
